---- MODULE Spec2Model ----
(***************************************************************************)
(* Model of src/src/cba_tools.py: Green Book discount rates, cumulative    *)
(* discount factors, NPV, BCR and the optimism-bias uplift.                *)
(*                                                                         *)
(* Numbers.  The program computes with Python floats; the model computes   *)
(* with the exact real values those floats stand for:                      *)
(*   - a rate is an integer number of thousandths (0.035 is 35);           *)
(*   - a discount factor is a product of powers of (1 + rate); it is kept  *)
(*     as the function rate |-> exponent over the rates with a non-zero    *)
(*     exponent.  The six values 1.035, 1.030, 1.025, 1.020, 1.015, 1.010  *)
(*     are multiplicatively independent (each of 207, 103, 41, 51, 203,    *)
(*     101 has a prime factor none of the others has), so two factors are  *)
(*     equal as reals exactly when their exponent functions are equal;     *)
(*   - an amount (cash flow, NPV, ratio, cost) is a rational <<n, d>> in   *)
(*     lowest terms with d > 0.                                            *)
(* Float rounding, overflow and underflow are outside the model.           *)
(***************************************************************************)
EXTENDS Integers, Sequences, FiniteSets, TLC

VARIABLES pc, fn, args, y, discount_factor, years, i, npv, result

vars == <<pc, fn, args, y, discount_factor, years, i, npv, result>>

(***************************************************************************)
(* Bounds of the model.                                                    *)
(***************************************************************************)
MaxYear == 302
NegYears == 2
MaxLen == 2
MaxSeqYear == 1

(***************************************************************************)
(* Exact arithmetic.                                                       *)
(***************************************************************************)
Abs(n) == IF n < 0 THEN -n ELSE n

Min(a, b) == IF a <= b THEN a ELSE b

RECURSIVE GCD(_, _)
GCD(a, b) == IF b = 0 THEN a ELSE GCD(b, a % b)

\* the rational n/d (d # 0) in lowest terms, denominator positive
Rat(n, d) ==
    LET g == GCD(Abs(n), Abs(d))
        s == IF d < 0 THEN -1 ELSE 1
    IN  <<s * (n \div g), s * (d \div g)>>

RInt(n) == <<n, 1>>

RAdd(p, q) ==
    LET g == GCD(p[2], q[2])
        l == (p[2] \div g) * q[2]
    IN  Rat(p[1] * (l \div p[2]) + q[1] * (l \div q[2]), l)

RMul(p, q) ==
    LET g1 == GCD(Abs(p[1]), q[2])
        g2 == GCD(Abs(q[1]), p[2])
    IN  Rat((p[1] \div g1) * (q[1] \div g2), (p[2] \div g2) * (q[2] \div g1))

\* p / q for q # 0
RDiv(p, q) == RMul(p, Rat(q[2], q[1]))

RECURSIVE RPow(_, _)
RPow(p, k) ==
    IF k = 0 THEN RInt(1)
    ELSE IF k < 0 THEN RPow(Rat(p[2], p[1]), -k)
    ELSE RMul(p, RPow(p, k - 1))

(***************************************************************************)
(* Rates (thousandths) and discount factors.                               *)
(***************************************************************************)
GREEN_BOOK_RATES ==
    [standard |-> [years_0_30 |-> 35, years_31_75 |-> 30, years_76_125 |-> 25,
                   years_126_200 |-> 20, years_201_300 |-> 15,
                   years_301_plus |-> 10],
     health |-> 15,
     reduced |-> 30]

\* the float 1.0 as a discount factor: the empty product
One == [r \in {} |-> 0]

\* 1 + rate, rate in thousandths
OnePlus(rate) == Rat(1000 + rate, 1000)

\* df * (1 + rate)^k
MulPow(df, rate, k) ==
    LET old == IF rate \in DOMAIN df THEN df[rate] ELSE 0
        new == old + k
    IN  IF new = 0 THEN [r \in DOMAIN df \ {rate} |-> df[r]] @@ <<>>
        ELSE (rate :> new) @@ df

\* the rational value of a discount factor
RECURSIVE ValueOf(_)
ValueOf(df) ==
    IF DOMAIN df = {} THEN RInt(1)
    ELSE LET r == CHOOSE x \in DOMAIN df : TRUE
             rest == [x \in DOMAIN df \ {r} |-> df[x]]
         IN  RMul(RPow(OnePlus(r), df[r]), ValueOf(rest))

get_discount_rate_lt(year, rate_type) ==
    IF rate_type = "health" THEN GREEN_BOOK_RATES.health
    ELSE IF rate_type = "reduced" THEN GREEN_BOOK_RATES.reduced
    ELSE IF year < 30 THEN GREEN_BOOK_RATES.standard.years_0_30
    ELSE IF year < 75 THEN GREEN_BOOK_RATES.standard.years_31_75
    ELSE IF year < 125 THEN GREEN_BOOK_RATES.standard.years_76_125
    ELSE IF year < 200 THEN GREEN_BOOK_RATES.standard.years_126_200
    ELSE IF year < 300 THEN GREEN_BOOK_RATES.standard.years_201_300
    ELSE GREEN_BOOK_RATES.standard.years_301_plus

get_discount_rate(year, rate_type) ==
    IF rate_type = "health" THEN GREEN_BOOK_RATES.health
    ELSE IF rate_type = "reduced" THEN GREEN_BOOK_RATES.reduced
    ELSE IF year <= 30 THEN GREEN_BOOK_RATES.standard.years_0_30
    ELSE IF year <= 75 THEN GREEN_BOOK_RATES.standard.years_31_75
    ELSE IF year <= 125 THEN GREEN_BOOK_RATES.standard.years_76_125
    ELSE IF year <= 200 THEN GREEN_BOOK_RATES.standard.years_126_200
    ELSE IF year <= 300 THEN GREEN_BOOK_RATES.standard.years_201_300
    ELSE GREEN_BOOK_RATES.standard.years_301_plus

\* one pass of the loop body for loop variable yy: lines 97-98
FactorBodyMul(df, yy, rate_type) ==
    MulPow(df, get_discount_rate(yy, rate_type), 1)

FactorBody(df, yy, rate_type) ==
    MulPow(df, get_discount_rate(yy, rate_type), -1)

\* range(1, year)
RangeStopExclusive(year) == year

\* range(1, abs(year) + 1)
RangeStopAbs(year) == Abs(year) + 1

\* the stop value of range(1, year + 1): line 96
RangeStop(year) == year + 1

\* the range still yields yy
FactorMore(yy, year) == yy < RangeStop(year)

\* e, once v has been computed (sequential evaluation)
Then(v, e) == IF v = v THEN e ELSE e

\* lines 96-98 for y = lo, lo + 1, ..., hi in this order, starting from df
\* (the range is halved so that the evaluation stays shallow)
RECURSIVE FactorLoop(_, _, _, _)
FactorLoop(lo, hi, rate_type, df) ==
    IF lo > hi THEN df
    ELSE IF lo = hi THEN FactorBody(df, lo, rate_type)
    ELSE LET mid == (lo + hi) \div 2
             first == FactorLoop(lo, mid, rate_type, df)
         IN  Then(first, FactorLoop(mid + 1, hi, rate_type, first))

\* lines 91-100
calculate_discount_factor(year, rate_type) ==
    IF year = 0 THEN One
    ELSE FactorLoop(1, RangeStop(year) - 1, rate_type, One)

(***************************************************************************)
(* Results of a call, optional arguments, inputs.                          *)
(***************************************************************************)
Ok(v) == [status |-> "ok", value |-> v]

Raise(m, d) == [status |-> "ValueError", msg |-> m, detail |-> d]

Pending == [status |-> "running"]

\* an optional argument: None, or the value given
None == <<>>

Some(v) == <<v>>

\* a local variable not yet assigned
Unset == <<>>

RECURSIVE SeqsUpTo(_, _)
SeqsUpTo(S, n) ==
    IF n = 0 THEN {<<>>}
    ELSE LET shorter == SeqsUpTo(S, n - 1)
         IN  shorter \cup {Append(s, x) : s \in {t \in shorter : Len(t) = n - 1}, x \in S}

\* "other" stands for every rate_type that is none of the three known ones
RateTypes == {"standard", "health", "reduced", "other"}

YearInputs == (-NegYears)..MaxYear

AmountInputs == {-1, 0, 1}

BenefitInputs == {0, 1}

SeqYearInputs == (-1)..MaxSeqYear

CostEstimateInputs == {-100, 0, 100, 10000000}

ProjectTypeInputs ==
    {"standard_building", "non_standard_building", "standard_civil_engineering",
     "non_standard_civil_engineering", "equipment_development", "outsourcing",
     "unknown_type", ""}

YearsArgs == {None} \cup {Some(s) : s \in SeqsUpTo(SeqYearInputs, MaxLen)}

(***************************************************************************)
(* calculate_npv_greenbook and calculate_bcr.                              *)
(***************************************************************************)
\* list(range(n))
Range(n) == [k \in 1..n |-> k - 1]

DefaultYearsFrom1(given, n) == IF given = None THEN [k \in 1..n |-> k] ELSE given[1]

\* lines 134-135 and 181-182: years, defaulted when None
DefaultYears(given, n) == IF given = None THEN Range(n) ELSE given[1]

NpvLengthErrorShorter(cash_flows, yrs) == Len(cash_flows) > Len(yrs)

\* line 137
NpvLengthError(cash_flows, yrs) == Len(cash_flows) # Len(yrs)

\* line 142-143: cf * df
NpvTerm(cf, year, rate_type) ==
    RMul(RInt(cf), ValueOf(calculate_discount_factor(year, rate_type)))

\* sum(a * calculate_discount_factor(y) for a, y in zip(amounts, yrs)), the
\* pairs from position k on; zip stops at the shorter sequence
RECURSIVE ZipSumFrom(_, _, _, _, _)
ZipSumFrom(k, amounts, yrs, rate_type, acc) ==
    IF k > Min(Len(amounts), Len(yrs)) THEN acc
    ELSE ZipSumFrom(k + 1, amounts, yrs, rate_type,
                    RAdd(acc, NpvTerm(amounts[k], yrs[k], rate_type)))

ZipSum(amounts, yrs, rate_type) == ZipSumFrom(1, amounts, yrs, rate_type, RInt(0))

\* if pv_costs <= 0
BcrNonPositive(costs, benefits, given, rate_type) ==
    LET yrs == DefaultYears(given, Len(costs))
        pv_costs == ZipSum(costs, yrs, rate_type)
        pv_benefits == ZipSum(benefits, yrs, rate_type)
    IN  IF pv_costs[1] <= 0
        THEN Raise("Total discounted costs cannot be zero", {})
        ELSE Ok(RDiv(pv_benefits, pv_costs))

\* (pv_benefits - pv_costs) / pv_costs
BcrNet(costs, benefits, given, rate_type) ==
    LET yrs == DefaultYears(given, Len(costs))
        pv_costs == ZipSum(costs, yrs, rate_type)
        pv_benefits == ZipSum(benefits, yrs, rate_type)
    IN  IF pv_costs = RInt(0)
        THEN Raise("Total discounted costs cannot be zero", {})
        ELSE Ok(RDiv(RAdd(pv_benefits, <<-pv_costs[1], pv_costs[2]>>), pv_costs))

\* lines 181-192
calculate_bcr(costs, benefits, given, rate_type) ==
    LET yrs == DefaultYears(given, Len(costs))
        pv_costs == ZipSum(costs, yrs, rate_type)
        pv_benefits == ZipSum(benefits, yrs, rate_type)
    IN  IF pv_costs = RInt(0)
        THEN Raise("Total discounted costs cannot be zero", {})
        ELSE Ok(RDiv(pv_benefits, pv_costs))

(***************************************************************************)
(* apply_optimism_bias.                                                    *)
(***************************************************************************)
\* lines 227-234, in thousandths
bias_factors ==
    [standard_building |-> 240,
     non_standard_building |-> 510,
     standard_civil_engineering |-> 440,
     non_standard_civil_engineering |-> 660,
     equipment_development |-> 540,
     outsourcing |-> 410]

apply_optimism_bias_uplift_only(cost_estimate, project_type) ==
    IF project_type \notin DOMAIN bias_factors
    THEN Raise("Unknown project type. Choose from: ", DOMAIN bias_factors)
    ELSE Ok(RMul(RInt(cost_estimate), Rat(bias_factors[project_type], 1000)))

apply_optimism_bias(cost_estimate, project_type) ==
    IF project_type \notin DOMAIN bias_factors
    THEN Raise("Unknown project type. Choose from: ", DOMAIN bias_factors)
    ELSE Ok(RMul(RInt(cost_estimate), OnePlus(bias_factors[project_type])))

(***************************************************************************)
(* The state machine: one call of one function with inputs drawn from the   *)
(* input sets; the two loops run step by step.                             *)
(***************************************************************************)
Init ==
    /\ pc = "start"
    /\ fn = "none"
    /\ args = <<>>
    /\ y = 0
    /\ discount_factor = Unset
    /\ years = Unset
    /\ i = 0
    /\ npv = Unset
    /\ result = Pending

NoLocals ==
    /\ y' = 0
    /\ discount_factor' = Unset
    /\ years' = Unset
    /\ i' = 0
    /\ npv' = Unset

CallRate ==
    /\ pc = "start"
    /\ \E year \in YearInputs, rate_type \in RateTypes :
      /\ fn' = "get_discount_rate"
      /\ args' = [year |-> year, rate_type |-> rate_type]
      /\ result' = Ok(get_discount_rate(year, rate_type))
      /\ pc' = "done"
      /\ NoLocals

\* lines 91-94
FactorCall ==
    /\ pc = "start"
    /\ \E year \in YearInputs, rate_type \in RateTypes :
      /\ fn' = "calculate_discount_factor"
      /\ args' = [year |-> year, rate_type |-> rate_type]
      /\ years' = Unset /\ i' = 0 /\ npv' = Unset
      /\ IF year = 0
         THEN /\ result' = Ok(One)
              /\ pc' = "done"
              /\ y' = 0
              /\ discount_factor' = Unset
         ELSE /\ result' = Pending
              /\ pc' = "factor"
              /\ y' = 1
              /\ discount_factor' = One

\* lines 96-98, one iteration; y is the next value range(1, year + 1) yields
FactorStep ==
    /\ pc = "factor"
    /\ FactorMore(y, args.year)
    /\ discount_factor' = FactorBody(discount_factor, y, args.rate_type)
    /\ y' = y + 1
    /\ UNCHANGED <<pc, fn, args, years, i, npv, result>>

\* line 100
FactorReturn ==
    /\ pc = "factor"
    /\ ~FactorMore(y, args.year)
    /\ result' = Ok(discount_factor)
    /\ pc' = "done"
    /\ UNCHANGED <<fn, args, y, discount_factor, years, i, npv>>

\* lines 134-140
NpvCall ==
    /\ pc = "start"
    /\ \E cash_flows \in SeqsUpTo(AmountInputs, MaxLen), given \in YearsArgs,
          rate_type \in RateTypes :
      /\ fn' = "calculate_npv_greenbook"
      /\ args' = [cash_flows |-> cash_flows, years |-> given, rate_type |-> rate_type]
      /\ years' = DefaultYears(given, Len(cash_flows))
      /\ y' = 0 /\ discount_factor' = Unset /\ i' = 0
      /\ IF NpvLengthError(cash_flows, years')
         THEN /\ result' = Raise("cash_flows and years must have same length", {})
              /\ pc' = "done"
              /\ npv' = Unset
         ELSE /\ result' = Pending
              /\ pc' = "npv"
              /\ npv' = RInt(0)

\* lines 141-143, one iteration; i counts the pairs zip has yielded
NpvStep ==
    /\ pc = "npv"
    /\ i < Min(Len(args.cash_flows), Len(years))
    /\ npv' = RAdd(npv, NpvTerm(args.cash_flows[i + 1], years[i + 1], args.rate_type))
    /\ i' = i + 1
    /\ UNCHANGED <<pc, fn, args, y, discount_factor, years, result>>

\* line 145
NpvReturn ==
    /\ pc = "npv"
    /\ i >= Min(Len(args.cash_flows), Len(years))
    /\ result' = Ok(npv)
    /\ pc' = "done"
    /\ UNCHANGED <<fn, args, y, discount_factor, years, i, npv>>

BcrCall ==
    /\ pc = "start"
    /\ \E costs \in SeqsUpTo(AmountInputs, MaxLen),
          benefits \in SeqsUpTo(BenefitInputs, MaxLen), given \in YearsArgs,
          rate_type \in RateTypes :
      /\ fn' = "calculate_bcr"
      /\ args' = [costs |-> costs, benefits |-> benefits, years |-> given,
                  rate_type |-> rate_type]
      /\ result' = calculate_bcr(costs, benefits, given, rate_type)
      /\ pc' = "done"
      /\ NoLocals

BiasCall ==
    /\ pc = "start"
    /\ \E cost_estimate \in CostEstimateInputs, project_type \in ProjectTypeInputs :
      /\ fn' = "apply_optimism_bias"
      /\ args' = [cost_estimate |-> cost_estimate, project_type |-> project_type]
      /\ result' = apply_optimism_bias(cost_estimate, project_type)
      /\ pc' = "done"
      /\ NoLocals

Next ==
    \/ CallRate
    \/ FactorCall
    \/ FactorStep
    \/ FactorReturn
    \/ NpvCall
    \/ NpvStep
    \/ NpvReturn
    \/ BcrCall
    \/ BiasCall

Spec == Init /\ [][Next]_vars

(***************************************************************************)
(* Reference definitions used to state the properties.                     *)
(***************************************************************************)
Returned(f) == pc = "done" /\ fn = f

\* 1 / product of (1 + rate(yy)) over yy in 1..n, by counting the years of each rate
RefFactor(n, rate_type) ==
    [r \in {get_discount_rate(yy, rate_type) : yy \in 1..n} |->
        -Cardinality({yy \in 1..n : get_discount_rate(yy, rate_type) = r})]

\* df is 1 divided by a product of numbers greater than 1: it lies in (0, 1]
InUnitInterval(df) == \A r \in DOMAIN df : r > 0 /\ df[r] < 0

\* a / b
Quotient(a, b) ==
    LET dom == {r \in DOMAIN a \cup DOMAIN b :
                   (IF r \in DOMAIN a THEN a[r] ELSE 0) # (IF r \in DOMAIN b THEN b[r] ELSE 0)}
    IN  [r \in dom |-> (IF r \in DOMAIN a THEN a[r] ELSE 0)
                        - (IF r \in DOMAIN b THEN b[r] ELSE 0)]

\* a <= b, for discount factors
FactorLeq(a, b) == InUnitInterval(Quotient(a, b))

\* the rate the band table gives
BandRate(year) ==
    CASE year <= 30 -> 35
      [] year \in 31..75 -> 30
      [] year \in 76..125 -> 25
      [] year \in 126..200 -> 20
      [] year \in 201..300 -> 15
      [] year >= 301 -> 10

\* sum over the positions k..n of amounts[j] * factor(yrs[j]), last term first
RECURSIVE RefSum(_, _, _, _, _)
RefSum(k, n, amounts, yrs, rate_type) ==
    IF n < k THEN RInt(0)
    ELSE RAdd(RMul(RInt(amounts[n]), ValueOf(RefFactor(yrs[n], rate_type))),
              RefSum(k, n - 1, amounts, yrs, rate_type))

\* years with every negative year replaced by 0
Clamped(yrs) == [k \in 1..Len(yrs) |-> IF yrs[k] < 0 THEN 0 ELSE yrs[k]]

\* the years a call of calculate_npv_greenbook or calculate_bcr pairs amounts with
PairedYears(given, n) == IF given = None THEN [k \in 1..n |-> k - 1] ELSE given[1]

KnownProjectTypes ==
    {"standard_building", "non_standard_building", "standard_civil_engineering",
     "non_standard_civil_engineering", "equipment_development", "outsourcing"}

\* the uplift of a known project type, in hundredths
UpliftPercent(project_type) ==
    CASE project_type = "standard_building" -> 24
      [] project_type = "non_standard_building" -> 51
      [] project_type = "standard_civil_engineering" -> 44
      [] project_type = "non_standard_civil_engineering" -> 66
      [] project_type = "equipment_development" -> 54
      [] project_type = "outsourcing" -> 41

NonNegative(amounts) == \A k \in 1..Len(amounts) : amounts[k] >= 0

BcrLengthsDiffer ==
    \/ Len(args.costs) # Len(args.benefits)
    \/ args.years # None /\ Len(args.years[1]) # Len(args.costs)

(***************************************************************************)
(* C1: calculate_discount_factor(0, category) is exactly 1; for n > 0 the  *)
(* result is the running value that starts at 1 and is divided by          *)
(* 1 + rate(y) for each y = 1..n, the rate being that of y's band:         *)
(* factor(n) = factor(n - 1) / (1 + rate(n)).                              *)
(***************************************************************************)
C1_FactorCompounds ==
    (Returned("calculate_discount_factor") /\ args.year >= 0) =>
        /\ result.status = "ok"
        /\ args.year = 0 => result.value = One /\ ValueOf(result.value) = RInt(1)
        /\ result.value = RefFactor(args.year, args.rate_type)
        /\ args.year > 0 =>
              result.value =
                  MulPow(calculate_discount_factor(args.year - 1, args.rate_type),
                         get_discount_rate(args.year, args.rate_type), -1)

C1_Witness ==
    /\ Returned("calculate_discount_factor")
    /\ args.year = 76 /\ args.rate_type = "standard"
    /\ result = Ok((35 :> -30) @@ (30 :> -45) @@ (25 :> -1))

(***************************************************************************)
(* C2: get_discount_rate returns 0.015 for health and 0.030 for reduced,   *)
(* and for standard or any other category the rate of the band of year     *)
(* (inclusive upper bounds 30, 75, 125, 200, 300, then 0.010); it never    *)
(* fails.                                                                  *)
(***************************************************************************)
C2_RateTable ==
    Returned("get_discount_rate") =>
        /\ result.status = "ok"
        /\ args.rate_type = "health" => result.value = 15
        /\ args.rate_type = "reduced" => result.value = 30
        /\ args.rate_type \notin {"health", "reduced"} =>
              result.value = BandRate(args.year)

C2_Witness ==
    /\ Returned("get_discount_rate")
    /\ args.year = 301 /\ args.rate_type = "other"
    /\ result = Ok(10)

C4_BcrLengthMismatchRaises ==
    (Returned("calculate_bcr") /\ BcrLengthsDiffer) =>
        /\ result.status = "ValueError"
        /\ result.msg # "Total discounted costs cannot be zero"

(***************************************************************************)
(* C5 as stated: with non-negative costs and benefits, a ratio that        *)
(* calculate_bcr returns is strictly greater than 0.  Stated here for      *)
(* costs, benefits and years of equal lengths, where zip drops nothing.    *)
(***************************************************************************)
C5_RatioPositive ==
    (/\ Returned("calculate_bcr") /\ result.status = "ok"
     /\ ~BcrLengthsDiffer
     /\ NonNegative(args.costs) /\ NonNegative(args.benefits)) =>
        result.value[1] > 0

(***************************************************************************)
(* C5 amended: with non-negative costs and benefits, a ratio that          *)
(* calculate_bcr returns is greater than or equal to 0, and it is 0        *)
(* exactly when the discounted benefit total is 0.                         *)
(***************************************************************************)
C5_RatioNonNegative ==
    (/\ Returned("calculate_bcr") /\ result.status = "ok"
     /\ NonNegative(args.costs) /\ NonNegative(args.benefits)) =>
        LET yrs == PairedYears(args.years, Len(args.costs))
            m == Min(Len(args.benefits), Len(yrs))
        IN  /\ result.value[1] >= 0 /\ result.value[2] > 0
            /\ result.value = RInt(0) <=>
                  RefSum(1, m, args.benefits, yrs, args.rate_type) = RInt(0)

C5_Witness ==
    /\ Returned("calculate_bcr")
    /\ args.costs = <<1, 1>> /\ args.benefits = <<0, 0>> /\ args.years = None
    /\ result = Ok(RInt(0))

C7_FactorBounds ==
    /\ (pc = "factor" /\ args.year >= 0) => InUnitInterval(discount_factor)
    /\ (Returned("calculate_discount_factor") /\ args.year >= 0) =>
          /\ InUnitInterval(result.value)
          /\ FactorLeq(calculate_discount_factor(args.year + 1, args.rate_type),
                       result.value)
          /\ args.year > 0 =>
                FactorLeq(result.value,
                          calculate_discount_factor(args.year - 1, args.rate_type))

C7_Witness ==
    /\ pc = "factor" /\ args.year = 302 /\ args.rate_type = "standard"
    /\ y = 302
    /\ discount_factor =
          (35 :> -30) @@ (30 :> -45) @@ (25 :> -50) @@ (20 :> -75) @@ (15 :> -100)
             @@ (10 :> -1)

(***************************************************************************)
(* C8: calculate_npv_greenbook raises the length-mismatch error exactly    *)
(* when years is given and len(years) # len(cash_flows), and then before   *)
(* any discount factor is computed or any term is added.                   *)
(***************************************************************************)
C8_NpvLengthMismatch ==
    /\ Returned("calculate_npv_greenbook") =>
          /\ result.status = "ValueError" <=>
                (args.years # None /\ Len(args.years[1]) # Len(args.cash_flows))
          /\ result.status = "ValueError" =>
                /\ result.msg = "cash_flows and years must have same length"
                /\ i = 0 /\ npv = Unset
          /\ result.status = "ok" => i = Len(args.cash_flows)
    /\ pc = "npv" => Len(years) = Len(args.cash_flows)

C8_Witness ==
    /\ Returned("calculate_npv_greenbook")
    /\ args.cash_flows = <<1>> /\ args.years = Some(<<0, 1>>)
    /\ result.status = "ValueError" /\ i = 0 /\ npv = Unset

(***************************************************************************)
(* C9: apply_optimism_bias raises the unknown-project-type error exactly   *)
(* when project_type is none of the six tags; otherwise it returns         *)
(* cost_estimate x (1 + uplift) with uplift 0.24, 0.51, 0.44, 0.66, 0.54,  *)
(* 0.41; 10000000 for standard_civil_engineering gives 14400000.           *)
(***************************************************************************)
C9_OptimismBias ==
    Returned("apply_optimism_bias") =>
        /\ result.status = "ValueError" <=> args.project_type \notin KnownProjectTypes
        /\ result.status = "ValueError" =>
              /\ result.msg = "Unknown project type. Choose from: "
              /\ result.detail = KnownProjectTypes
        /\ args.project_type \in KnownProjectTypes =>
              result = Ok(RMul(RInt(args.cost_estimate),
                               Rat(100 + UpliftPercent(args.project_type), 100)))
        /\ (/\ args.cost_estimate = 10000000
            /\ args.project_type = "standard_civil_engineering") =>
              result = Ok(RInt(14400000))

C9_Witness ==
    /\ Returned("apply_optimism_bias")
    /\ args.cost_estimate = 10000000
    /\ args.project_type = "standard_civil_engineering"
    /\ result = Ok(<<14400000, 1>>)

(***************************************************************************)
(* C10: for a negative year calculate_discount_factor returns 1 without    *)
(* raising, its loop body running zero times; an NPV or BCR term at a      *)
(* negative year is left undiscounted, as at year 0.                       *)
(***************************************************************************)
C10_NegativeYear ==
    /\ (fn = "calculate_discount_factor" /\ args.year < 0) =>
          /\ pc \in {"factor", "done"}
          /\ y = 1 /\ discount_factor = One
          /\ pc = "factor" => ~FactorMore(y, args.year)
          /\ pc = "done" => result = Ok(One)
    /\ (Returned("calculate_npv_greenbook") /\ result.status = "ok") =>
          result.value =
              RefSum(1, Len(args.cash_flows), args.cash_flows,
                     Clamped(PairedYears(args.years, Len(args.cash_flows))),
                     args.rate_type)
    /\ (Returned("calculate_bcr") /\ args.years # None) =>
          result = calculate_bcr(args.costs, args.benefits,
                                 Some(Clamped(args.years[1])), args.rate_type)

C10_Witness ==
    /\ Returned("calculate_discount_factor")
    /\ args.year = -2 /\ args.rate_type = "standard"
    /\ result = Ok(One) /\ y = 1

====
